---- MODULE Spec2Model ----
(***************************************************************************)
(* Knowledge base and context assembler of the narrative core:             *)
(* KnowledgeGraph (facts, tag index, entity index, associations),          *)
(* the Fact builder, ActivationState and ContextAssembler.                 *)
(*                                                                         *)
(* Real numbers (f32 in the source) are modelled as exact rationals        *)
(* [n |-> numerator, d |-> denominator > 0] in lowest terms.               *)
(***************************************************************************)
EXTENDS Integers, Sequences, FiniteSets, TLC

VARIABLES
    graph,       \* the KnowledgeGraph
    draft,       \* the Fact a caller is building, as a set of at most one fact
    ret,         \* the last call and what it returned
    prev,        \* the association call made before the last one
    ops,         \* number of calls made so far that count against the bound
    activation,  \* the ActivationState (Tag -> energy)
    config,      \* the ActivationConfig of the assembler
    trigger,     \* the trigger tags of the last spread_activation
    pc,          \* "idle", or "spread" / "done" for a spread_activation call
    depth,       \* iterations of the depth loop of spread_activation done so far
    collected,   \* the list of fact ids returned by the last collect_facts
    world,       \* the WorldState
    context      \* the last AssembledContext, as a set of at most one context

vars == <<graph, draft, ret, prev, ops, activation, config, trigger, pc, depth,
          collected, world, context>>

assemblerVars == <<activation, config, trigger, pc, depth, collected>>

worldVars == <<world, context>>

(***************************************************************************)
(* Exact rational arithmetic                                               *)
(***************************************************************************)
Abs(x) == IF x < 0 THEN -x ELSE x

RECURSIVE GCD(_, _)
GCD(a, b) == IF b = 0 THEN a ELSE GCD(b, a % b)

Rat(n, d) ==
    LET g == GCD(Abs(n), Abs(d))
        s == IF d < 0 THEN -1 ELSE 1
    IN  [n |-> (s * n) \div g, d |-> (s * d) \div g]

R0 == Rat(0, 1)
R1 == Rat(1, 1)

RAdd(a, b) == Rat(a.n * b.d + b.n * a.d, a.d * b.d)
RMul(a, b) == Rat(a.n * b.n, a.d * b.d)
RHalf(a) == Rat(a.n, a.d * 2)
RDiv(a, b) == Rat(a.n * b.d, a.d * b.n)
RLe(a, b) == a.n * b.d <= b.n * a.d
RLt(a, b) == a.n * b.d < b.n * a.d

\* sum of the values of a function with a finite domain
RECURSIVE SumFn(_)
SumFn(f) ==
    IF DOMAIN f = {} THEN R0
    ELSE LET x == CHOOSE x \in DOMAIN f : TRUE IN
         RAdd(f[x], SumFn([y \in (DOMAIN f) \ {x} |-> f[y]]))

\* f32::clamp(0.0, 1.0)
clamp01(w) == IF RLt(w, R0) THEN R0 ELSE IF RLt(R1, w) THEN R1 ELSE w

(***************************************************************************)
(* Tags                                                                    *)
(***************************************************************************)
Entities == {"e1", "e2"}

TagEntity(e) == <<"Entity", e>>
TagConcept(s) == <<"Concept", s>>

\* Tag::as_string: "<category>:<payload>"
as_string(t) ==
    (IF t[1] = "Entity" THEN "entity:"
     ELSE IF t[1] = "Location" THEN "location:"
     ELSE IF t[1] = "Concept" THEN "concept:"
     ELSE IF t[1] = "Faction" THEN "faction:"
     ELSE IF t[1] = "EventType" THEN "event:"
     ELSE IF t[1] = "RelationType" THEN "relation:"
     ELSE "custom:") \o t[2]

(***************************************************************************)
(* Facts                                                                   *)
(***************************************************************************)
FactIds == {"f1", "f2"}

Generic == <<"Generic">>
Relationship(a, b) == <<"Relationship", a, b>>
Secret(h) == <<"Secret", h>>
Trait(e) == <<"Trait", e>>

\* Fact::new: Generic, no tags, importance 0.5, known to the player, not revealed
Fact_new(id) ==
    [id |-> id, fact_type |-> Generic, tags |-> {}, importance |-> Rat(1, 2),
     known_to_player |-> TRUE, revealed |-> FALSE]

with_type(f, ty) == [f EXCEPT !.fact_type = ty]
with_tag(f, t) == [f EXCEPT !.tags = @ \cup {t}]
with_importance(f, i) == [f EXCEPT !.importance = clamp01(i)]
with_known_to_player(f, k) == [f EXCEPT !.known_to_player = k]

\* Fact::reveal
reveal(f) == [f EXCEPT !.revealed = TRUE, !.known_to_player = TRUE]

(***************************************************************************)
(* KnowledgeGraph                                                          *)
(***************************************************************************)
EmptyFn == [x \in {} |-> {}]

\* KnowledgeGraph::new
NewGraph ==
    [facts |-> EmptyFn, tag_to_facts |-> EmptyFn,
     associations |-> [x \in {} |-> <<>>], fact_by_entity |-> EmptyFn]

\* HashMap entry(k).or_default().insert(id) for every k in keys
InsertAll(index, keys, id) ==
    [k \in (DOMAIN index) \cup keys |->
        IF k \in keys
        THEN (IF k \in DOMAIN index THEN index[k] ELSE {}) \cup {id}
        ELSE index[k]]

\* entities referenced by the fact type (match in add_fact)
TypeEntities(ty) ==
    IF ty[1] = "Relationship" THEN {ty[2], ty[3]}
    ELSE IF ty[1] = "Secret" THEN {ty[2]}
    ELSE IF ty[1] = "Trait" THEN {ty[2]}
    ELSE {}

\* entities named by Tag::Entity tags
TagEntities(tags) == {t[2] : t \in {u \in tags : u[1] = "Entity"}}

\* add_fact without the match on fact_type (only Entity tags are indexed)
add_fact_tags_only(G, fact) ==
    [G EXCEPT
        !.tag_to_facts = InsertAll(@, fact.tags, fact.id),
        !.fact_by_entity = InsertAll(@, TagEntities(fact.tags), fact.id),
        !.facts = [i \in (DOMAIN @) \cup {fact.id} |->
                      IF i = fact.id THEN fact ELSE @[i]]]

add_fact(G, fact) ==
    [G EXCEPT
        !.tag_to_facts = InsertAll(@, fact.tags, fact.id),
        !.fact_by_entity =
            InsertAll(@, TypeEntities(fact.fact_type) \cup TagEntities(fact.tags),
                      fact.id),
        !.facts = [i \in (DOMAIN @) \cup {fact.id} |->
                      IF i = fact.id THEN fact ELSE @[i]]]

remove_fact(G, id) ==
    IF id \in DOMAIN G.facts
    THEN LET fact == G.facts[id] IN
         [G EXCEPT
            !.facts = [i \in (DOMAIN @) \ {id} |-> @[i]],
            !.tag_to_facts = [t \in DOMAIN @ |->
                                 IF t \in fact.tags THEN @[t] \ {id} ELSE @[t]],
            !.fact_by_entity = [e \in DOMAIN @ |-> @[e] \ {id}]]
    ELSE G

\* Option<Fact> returned by remove_fact, as a set with at most one element
remove_fact_ret(G, id) ==
    IF id \in DOMAIN G.facts THEN {G.facts[id]} ELSE {}

\* a reveal_fact that stores a revealed default fact under a missing id
reveal_fact_upserting(G, id) ==
    [G EXCEPT !.facts = [i \in (DOMAIN @) \cup {id} |->
                            IF i = id
                            THEN reveal(IF id \in DOMAIN @ THEN @[id] ELSE Fact_new(id))
                            ELSE @[i]]]

reveal_fact(G, id) ==
    IF id \in DOMAIN G.facts
    THEN [G EXCEPT !.facts = [@ EXCEPT ![id] = reveal(@)]]
    ELSE G

reveal_fact_ret(G, id) == id \in DOMAIN G.facts

\* KnowledgeGraph::fact_count
fact_count(G) == Cardinality(DOMAIN G.facts)

\* KnowledgeGraph::all_tags: the keys of tag_to_facts
all_tags(G) == DOMAIN G.tag_to_facts

\* KnowledgeGraph::tag_count
tag_count(G) == Cardinality(DOMAIN G.tag_to_facts)

\* KnowledgeGraph::has_tag
has_tag(G, tag) == tag \in DOMAIN G.tag_to_facts

\* the out-edges of a tag (get_associations)
get_associations(G, tag) ==
    IF tag \in DOMAIN G.associations THEN G.associations[tag] ELSE <<>>

\* position of the first edge to `to` in an adjacency list, 0 when there is none
FindTarget(list, to) ==
    IF \E i \in 1..Len(list) : list[i].target = to
    THEN CHOOSE i \in 1..Len(list) :
            /\ list[i].target = to
            /\ \A j \in 1..(i - 1) : list[j].target # to
    ELSE 0

\* add_association that clamps neither on insertion nor on update
add_association_unclamped(G, from, to, weight, assoc_type) ==
    LET list == get_associations(G, from)
        i == FindTarget(list, to)
        new == IF i # 0
               THEN [list EXCEPT ![i].weight = RHalf(RAdd(@, weight))]
               ELSE Append(list, [target |-> to, weight |-> weight,
                                  association_type |-> assoc_type])
    IN  [G EXCEPT !.associations =
            [t \in (DOMAIN @) \cup {from} |-> IF t = from THEN new ELSE @[t]]]

\* add_association that always pushes a new edge
add_association_push(G, from, to, weight, assoc_type) ==
    LET list == get_associations(G, from)
        new == Append(list, [target |-> to, weight |-> clamp01(weight),
                             association_type |-> assoc_type])
    IN  [G EXCEPT !.associations =
            [t \in (DOMAIN @) \cup {from} |-> IF t = from THEN new ELSE @[t]]]

\* add_association that also takes over the kind on an update
add_association_rekinding(G, from, to, weight, assoc_type) ==
    LET list == get_associations(G, from)
        i == FindTarget(list, to)
        new == IF i # 0
               THEN [list EXCEPT ![i].weight = RHalf(RAdd(@, weight)),
                                 ![i].association_type = assoc_type]
               ELSE Append(list, [target |-> to, weight |-> clamp01(weight),
                                  association_type |-> assoc_type])
    IN  [G EXCEPT !.associations =
            [t \in (DOMAIN @) \cup {from} |-> IF t = from THEN new ELSE @[t]]]

add_association(G, from, to, weight, assoc_type) ==
    LET list == get_associations(G, from)
        i == FindTarget(list, to)
        new == IF i # 0
               THEN [list EXCEPT ![i].weight = RHalf(RAdd(@, weight))]
               ELSE Append(list, [target |-> to, weight |-> clamp01(weight),
                                  association_type |-> assoc_type])
    IN  [G EXCEPT !.associations =
            [t \in (DOMAIN @) \cup {from} |-> IF t = from THEN new ELSE @[t]]]

add_bidirectional_association(G, tag_a, tag_b, weight, assoc_type) ==
    add_association(add_association(G, tag_a, tag_b, weight, assoc_type),
                    tag_b, tag_a, weight, assoc_type)

\* the strings as_string yields for the tags of the model, in ascending
\* (byte-wise) order: the order String::cmp gives them
CanonicalStrings == <<"concept:A", "concept:B", "concept:C", "entity:e1", "entity:e2">>

StringRank(str) == CHOOSE i \in 1..Len(CanonicalStrings) : CanonicalStrings[i] = str

\* Ord for Tag: self.as_string().cmp(&other.as_string())
TagLess(a, b) == StringRank(as_string(a)) < StringRank(as_string(b))

\* ((count + 1) as f32).ln().min(1.0): no zero weight for a single fact
LnMin1OfSuccessor(count) == IF count = 1 THEN Rat(693, 1000) ELSE R1

\* (count as f32).ln().min(1.0): ln 1 = 0, ln 2 = 0.693 (to three decimals),
\* ln c > 1 for every c >= 3
LnMin1(count) ==
    IF count = 1 THEN R0 ELSE IF count = 2 THEN Rat(693, 1000) ELSE R1

\* the keys of co_occurrences: pairs (a, b), a < b, of tags of one live fact
CoOccurrencePairs(G) ==
    {p \in UNION {F.tags \X F.tags : F \in {G.facts[i] : i \in DOMAIN G.facts}} :
        TagLess(p[1], p[2])}

\* co_occurrences[(a, b)]: the number of live facts carrying both tags
CoOccurrenceCount(G, p) ==
    Cardinality({i \in DOMAIN G.facts : {p[1], p[2]} \subseteq G.facts[i].tags})

\* the second loop of build_co_occurrence_associations, over the map's
\* entries in the order `order` (a HashMap iterates in an arbitrary order)
RECURSIVE AddCoOccurrences(_, _, _)
AddCoOccurrences(G, G0, order) ==
    IF order = <<>> THEN G
    ELSE AddCoOccurrences(
            add_bidirectional_association(
                G, Head(order)[1], Head(order)[2],
                LnMin1(CoOccurrenceCount(G0, Head(order))), "CoOccurrence"),
            G0, Tail(order))

\* all orders in which a set can be iterated
Orders(S) ==
    {s \in [1..Cardinality(S) -> S] : \A i, j \in 1..Cardinality(S) : s[i] = s[j] => i = j}

build_co_occurrence_associations(G, order) == AddCoOccurrences(G, G, order)


(***************************************************************************)
(* ActivationState                                                         *)
(***************************************************************************)
\* ActivationState::get_energy: a missing tag has energy 0
get_energy(S, tag) == IF tag \in DOMAIN S THEN S[tag] ELSE R0

\* ActivationState::add_energy: *entry(tag).or_insert(0.0) += energy
add_energy(S, tag, energy) ==
    [t \in (DOMAIN S) \cup {tag} |->
        IF t = tag THEN RAdd(get_energy(S, tag), energy) ELSE S[t]]

\* ActivationState::set_energy
set_energy(S, tag, energy) ==
    [t \in (DOMAIN S) \cup {tag} |-> IF t = tag THEN energy ELSE S[t]]

\* ActivationState::is_active: self.get_energy(tag) > 0.0
is_active(S, tag) == RLt(R0, get_energy(S, tag))

\* ActivationState::active_count
active_count(S) == Cardinality(DOMAIN S)

\* ActivationState::total_energy
total_energy(S) == SumFn(S)

\* ActivationState::hottest_tag: Iterator::max_by over the map's iteration
\* order `order`; of several maximal entries the last one visited is returned.
\* The result is a set of at most one <<tag, energy>>.
hottest_tag(S, order) ==
    IF order = <<>> THEN {}
    ELSE LET top == {i \in 1..Len(order) :
                        \A j \in 1..Len(order) : ~RLt(S[order[i]], S[order[j]])}
             last == CHOOSE i \in top : \A j \in top : j <= i
         IN  {<<order[last], S[order[last]]>>}

\* a decay that subtracts the rate from every energy
apply_decay_subtracting(S, decay_rate) ==
    [t \in DOMAIN S |-> RAdd(S[t], Rat(-decay_rate.n, decay_rate.d))]

\* a decay that drops the entries whose energy has reached 0
apply_decay_dropping(S, decay_rate) ==
    [t \in {u \in DOMAIN S : RMul(S[u], decay_rate) # R0} |-> RMul(S[t], decay_rate)]

\* ActivationState::apply_decay: *energy *= decay_rate for every entry
apply_decay(S, decay_rate) == [t \in DOMAIN S |-> RMul(S[t], decay_rate)]

\* retain(|_, e| *e > threshold)
prune_strict(S, threshold) ==
    [t \in {u \in DOMAIN S : RLt(threshold, S[u])} |-> S[t]]

\* ActivationState::prune: retain(|_, e| *e >= threshold)
prune(S, threshold) ==
    [t \in {u \in DOMAIN S : ~RLt(S[u], threshold)} |-> S[t]]

\* a normalize that divides by the total energy
normalize_by_total(S, order) ==
    IF RLt(R0, total_energy(S))
    THEN [t \in DOMAIN S |-> RDiv(S[t], total_energy(S))]
    ELSE S

\* ActivationState::normalize: if there is a hottest tag and its energy max
\* is > 0, every energy is divided by max
normalize(S, order) ==
    LET hottest == hottest_tag(S, order) IN
    IF hottest = {} THEN S
    ELSE LET max == (CHOOSE h \in hottest : TRUE)[2] IN
         IF RLt(R0, max) THEN [t \in DOMAIN S |-> RDiv(S[t], max)] ELSE S

\* ActivationState::merge: self.add_energy(tag, energy) for every entry of other
merge(S, other) ==
    [t \in (DOMAIN S) \cup (DOMAIN other) |->
        IF t \in DOMAIN other THEN RAdd(get_energy(S, t), other[t]) ELSE S[t]]

(***************************************************************************)
(* ContextAssembler::spread_activation                                     *)
(***************************************************************************)
\* Step 1: state.add_energy(tag, initial_energy) for every trigger tag
RECURSIVE InitEnergies(_, _, _)
InitEnergies(S, cfg, tags) ==
    IF tags = <<>> THEN S
    ELSE InitEnergies(add_energy(S, Head(tags), cfg.initial_energy), cfg, Tail(tags))

\* the inner loop without the decay factor
RECURSIVE SpreadEdgesNoDecay(_, _, _, _)
SpreadEdgesNoDecay(new, energy, list, cfg) ==
    IF list = <<>> THEN new
    ELSE SpreadEdgesNoDecay(
            add_energy(new, Head(list).target, RMul(energy, Head(list).weight)),
            energy, Tail(list), cfg)

\* the inner loop with the threshold applied to the energy passed on as well
RECURSIVE SpreadEdgesAboveThreshold(_, _, _, _)
SpreadEdgesAboveThreshold(new, energy, list, cfg) ==
    IF list = <<>> THEN new
    ELSE LET spread_energy == RMul(RMul(energy, Head(list).weight), cfg.decay_rate) IN
         SpreadEdgesAboveThreshold(
            IF RLt(spread_energy, cfg.energy_threshold)
            THEN new
            ELSE add_energy(new, Head(list).target, spread_energy),
            energy, Tail(list), cfg)

\* the inner loop: every out-edge of a tag adds energy * weight * decay_rate
\* to new_energies[target]
RECURSIVE SpreadEdges(_, _, _, _)
SpreadEdges(new, energy, list, cfg) ==
    IF list = <<>> THEN new
    ELSE SpreadEdges(
            add_energy(new, Head(list).target,
                       RMul(RMul(energy, Head(list).weight), cfg.decay_rate)),
            energy, Tail(list), cfg)

\* the loop over the energies where a tag passes on what it has received so
\* far in the step as well
RECURSIVE SpreadTagsWithReceived(_, _, _, _, _)
SpreadTagsWithReceived(new, S, order, G, cfg) ==
    IF order = <<>> THEN new
    ELSE LET tag == Head(order)
             energy == RAdd(S[tag], get_energy(new, tag))
         IN  SpreadTagsWithReceived(
                IF RLt(energy, cfg.energy_threshold)
                THEN new
                ELSE SpreadEdges(new, energy, get_associations(G, tag), cfg),
                S, Tail(order), G, cfg)

\* the loop over state.iter_energies(), in the order `order`; energies are
\* read from the state S as it was when the step began
RECURSIVE SpreadTags(_, _, _, _, _)
SpreadTags(new, S, order, G, cfg) ==
    IF order = <<>> THEN new
    ELSE LET tag == Head(order) IN
         SpreadTags(
            IF RLt(S[tag], cfg.energy_threshold)
            THEN new
            ELSE SpreadEdges(new, S[tag], get_associations(G, tag), cfg),
            S, Tail(order), G, cfg)

\* a merge that sets a tag's energy to what it received in the step
MergeEnergiesOverwriting(S, new) ==
    [t \in (DOMAIN S) \cup (DOMAIN new) |-> IF t \in DOMAIN new THEN new[t] ELSE S[t]]

\* "Merge new energies": state.add_energy(tag, energy) for every entry
MergeEnergies(S, new) ==
    [t \in (DOMAIN S) \cup (DOMAIN new) |->
        IF t \in DOMAIN new THEN RAdd(get_energy(S, t), new[t]) ELSE S[t]]

\* a step that adds the spread energy to the state while it iterates, so that
\* energy received in a step is passed on in the same step
RECURSIVE SpreadInPlace(_, _, _, _)
SpreadInPlace(S, order, G, cfg) ==
    IF order = <<>> THEN S
    ELSE LET tag == Head(order) IN
         SpreadInPlace(
            IF RLt(S[tag], cfg.energy_threshold)
            THEN S
            ELSE SpreadEdges(S, S[tag], get_associations(G, tag), cfg),
            Tail(order), G, cfg)

spread_step_in_place(G, cfg, S, order) == SpreadInPlace(S, order, G, cfg)

\* one iteration of `for _depth in 0..max_depth`
spread_step(G, cfg, S, order) ==
    MergeEnergies(S, SpreadTags(EmptyFn, S, order, G, cfg))

(***************************************************************************)
(* ContextAssembler::collect_facts                                         *)
(***************************************************************************)
\* place x = <<key, value>> behind every entry whose value is >= x's: one
\* step of a stable sort by value, descending
InsertByValue(sorted, x) ==
    LET n == Cardinality({i \in 1..Len(sorted) : ~RLt(sorted[i][2], x[2])}) IN
    SubSeq(sorted, 1, n) \o <<x>> \o SubSeq(sorted, n + 1, Len(sorted))

\* slice::sort_by(|a, b| b.1.partial_cmp(&a.1)): stable, descending by value
RECURSIVE SortByValueDesc(_)
SortByValueDesc(seq) ==
    IF seq = <<>> THEN <<>>
    ELSE InsertByValue(SortByValueDesc(SubSeq(seq, 1, Len(seq) - 1)), seq[Len(seq)])

\* ActivationState::hot_tags: the entries with energy >= threshold, taken in
\* the map's iteration order `order`, then sorted by energy
hot_tags(S, threshold, order) ==
    SortByValueDesc(
        SelectSeq([i \in 1..Len(order) |-> <<order[i], S[order[i]]>>],
                  LAMBDA p : ~RLt(p[2], threshold)))

\* KnowledgeGraph::facts_by_tag: the live facts whose id is in tag_to_facts[tag]
facts_by_tag(G, tag) ==
    IF tag \in DOMAIN G.tag_to_facts
    THEN {G.facts[i] : i \in G.tag_to_facts[tag] \cap DOMAIN G.facts}
    ELSE {}

\* a scoring loop that adds the energy alone, without the fact's importance
FactScoresEnergyOnly(G, hot) ==
    LET ids == {F.id : F \in UNION {facts_by_tag(G, hot[i][1]) : i \in 1..Len(hot)}} IN
    [id \in ids |->
        SumFn([i \in {j \in 1..Len(hot) : G.facts[id] \in facts_by_tag(G, hot[j][1])} |->
                  hot[i][2]])]

\* fact_scores after the scoring loop: score[id] is the sum over the hot tags
\* (tag, energy) whose facts_by_tag holds the fact of energy * importance
FactScores(G, hot) ==
    LET ids == {F.id : F \in UNION {facts_by_tag(G, hot[i][1]) : i \in 1..Len(hot)}} IN
    [id \in ids |->
        SumFn([i \in {j \in 1..Len(hot) : G.facts[id] \in facts_by_tag(G, hot[j][1])} |->
                  RMul(hot[i][2], G.facts[id].importance)])]

\* the first n elements of a sequence (Iterator::take)
Take(seq, n) == SubSeq(seq, 1, IF n < Len(seq) THEN n ELSE Len(seq))

\* collect_facts: tag_order is the iteration order of the energies,
\* score_order the iteration order of fact_scores; the ids of the facts
\* returned, in the order returned
collect_facts(G, S, cfg, tag_order, score_order) ==
    LET scores == FactScores(G, hot_tags(S, cfg.energy_threshold, tag_order))
        scored == SortByValueDesc(
                      [i \in 1..Len(score_order) |->
                          <<score_order[i], scores[score_order[i]]>>])
        top == Take(scored, cfg.max_facts)
    IN  [i \in 1..Len(top) |-> top[i][1]]

\* the keys of fact_scores
ScoredIds(G, S, cfg) ==
    {F.id : F \in UNION {facts_by_tag(G, t) :
                            t \in {u \in DOMAIN S : ~RLt(S[u], cfg.energy_threshold)}}}

(***************************************************************************)
(* WorldState                                                              *)
(***************************************************************************)
Locations == {"l1"}

TagLocation(l) == <<"Location", l>>

\* WorldState::new: default time and weather, no characters, no locations
NewWorld ==
    [time |-> [day |-> 0, hour |-> 0, minute |-> 0, season |-> "Spring"],
     weather |-> "Clear",
     characters |-> EmptyFn,
     locations |-> EmptyFn,
     entity_locations |-> EmptyFn]

\* Character::new(name) with the given id and its public stats set to
\* current_hp and max_hp
Character_new(id, name, current_hp, max_hp) ==
    [id |-> id, name |-> name,
     stats |-> [current_hp |-> current_hp, max_hp |-> max_hp]]

\* WorldState::add_character
add_character(W, character) ==
    [W EXCEPT !.characters =
        [id \in (DOMAIN W.characters) \cup {character.id} |->
            IF id = character.id THEN character ELSE W.characters[id]]]

\* WorldState::add_location
add_location(W, location) ==
    [W EXCEPT !.locations =
        [id \in (DOMAIN W.locations) \cup {location.id} |->
            IF id = location.id THEN location ELSE W.locations[id]]]

\* WorldState::set_entity_location
set_entity_location(W, entity_id, location_id) ==
    [W EXCEPT !.entity_locations =
        [e \in (DOMAIN W.entity_locations) \cup {entity_id} |->
            IF e = entity_id THEN location_id ELSE W.entity_locations[e]]]

\* WorldState::is_night
is_night(W) == W.time.hour < 6 \/ W.time.hour >= 20

\* WorldTime::new
WorldTime_new(day, hour, minute, season) ==
    [day |-> day, hour |-> hour, minute |-> minute, season |-> season]

\* the u32 argument of advance_time, as its two 16-bit halves
U32(hi, lo) == [hi |-> hi, lo |-> lo]

\* self.time.minute as u32 + minutes in 32 bits: the sum modulo 2^32 and
\* whether the true sum is above u32::MAX
total_minutes(minute, minutes) ==
    LET lo == minutes.lo + minute
        hi == minutes.hi + (lo \div 65536)
    IN  [hi |-> hi % 65536, lo |-> lo % 65536, overflow |-> hi >= 65536]

\* x / k and x % k for a u32 x given by its halves and a divisor k < 2^15
U32Div(x, k) == (x.hi \div k) * 65536 + ((x.hi % k) * 65536 + x.lo) \div k

U32Mod(x, k) == ((x.hi % k) * 65536 + x.lo) % k

\* the match on season_day = day % 360
SeasonOfDay(day) ==
    LET season_day == day % 360 IN
    IF season_day <= 89 THEN "Spring"
    ELSE IF season_day <= 179 THEN "Summer"
    ELSE IF season_day <= 269 THEN "Autumn"
    ELSE "Winter"

\* WorldState::advance_time where the first addition does not panic: as it
\* is when the sum fits, and with the sum wrapped in a build without
\* overflow checks
advance_time(W, minutes) ==
    LET total == total_minutes(W.time.minute, minutes)
        hours_passed == U32Div(total, 60)
        total_hours == W.time.hour + hours_passed
        days_passed == total_hours \div 24
        day == W.time.day + days_passed
    IN  [W EXCEPT !.time = [day |-> day,
                            hour |-> total_hours % 24,
                            minute |-> U32Mod(total, 60),
                            season |-> SeasonOfDay(day)]]

(***************************************************************************)
(* ContextAssembler::assemble_context                                      *)
(* An event is given by its variant and by what its interface returns:     *)
(* [variant, to_tags, primary_entity (a set of at most one id),            *)
(*  involved_entities].                                                    *)
(***************************************************************************)
\* spread_activation as a whole: the ActivationStates it can return after k
\* more iterations of the depth loop, over the iteration orders of the map
RECURSIVE SpreadDepths(_, _, _, _)
SpreadDepths(G, cfg, S, k) ==
    IF k = 0 THEN {S}
    ELSE UNION {SpreadDepths(G, cfg, spread_step(G, cfg, S, order), k - 1) :
                    order \in Orders(DOMAIN S)}

spread_activation(G, cfg, tags) ==
    SpreadDepths(G, cfg, InitEnergies(EmptyFn, cfg, tags), cfg.max_depth)

\* an extraction that leaves the location tag out when the event's tags hold
\* it already
extract_tags_without_duplicate(event, W) ==
    event.to_tags \o
        (IF \E e \in event.primary_entity :
                /\ e \in DOMAIN W.entity_locations
                /\ \A i \in 1..Len(event.to_tags) :
                        event.to_tags[i] # TagLocation(W.entity_locations[e])
         THEN LET e == CHOOSE e \in event.primary_entity : TRUE IN
              <<TagLocation(W.entity_locations[e])>>
         ELSE <<>>)

\* extract_tags_from_event: the event's tags, then the location tag of the
\* primary entity if the world knows where it is
extract_tags_from_event(event, W) ==
    event.to_tags \o
        (IF \E e \in event.primary_entity : e \in DOMAIN W.entity_locations
         THEN LET e == CHOOSE e \in event.primary_entity : TRUE IN
              <<TagLocation(W.entity_locations[e])>>
         ELSE <<>>)

\* [String]::join(sep)
RECURSIVE Join(_, _)
Join(names, sep) ==
    IF names = <<>> THEN ""
    ELSE IF Len(names) = 1 THEN names[1]
    ELSE names[1] \o sep \o Join(Tail(names), sep)

\* world_state.get_character(id).map(|c| c.name.as_str()).unwrap_or(default)
CharacterNameOr(W, id, default) ==
    IF id \in DOMAIN W.characters THEN W.characters[id].name ELSE default

\* the names of DialogueStarted: participants.iter().filter_map(|id|
\* world_state.get_character(*id)).map(|c| c.name.as_str())
DialogueNames(W, participants) ==
    LET present == SelectSeq(participants, LAMBDA id : id \in DOMAIN W.characters) IN
    [i \in 1..Len(present) |-> W.characters[present[i]].name]

\* describe_event: the match on the event variant. An Option is a set of at
\* most one element; a variant without an arm of its own is printed by
\* {:?}, which is its name for a variant without fields.
describe_event(event, W) ==
    IF event.kind = "CombatAbilityUsed"
    THEN CharacterNameOr(W, event.source, "Unknown") \o " used ability '"
            \o event.ability \o "' on " \o CharacterNameOr(W, event.target, "Unknown")
    ELSE IF event.kind = "DialogueStarted"
    THEN IF event.topic # {}
         THEN Join(DialogueNames(W, event.participants), " and ")
                \o " begin discussing " \o (CHOOSE t \in event.topic : TRUE)
         ELSE Join(DialogueNames(W, event.participants), " and ")
                \o " begin a conversation"
    ELSE IF event.kind = "LocationEntered"
    THEN CharacterNameOr(W, event.entity, "Someone") \o " enters "
            \o (IF event.location \in DOMAIN W.locations
                 THEN W.locations[event.location].name
                 ELSE "an unknown place")
    ELSE IF event.kind = "EntityDied"
    THEN IF event.killer # {}
         THEN CharacterNameOr(W, event.entity, "Someone") \o " was killed by "
                \o CharacterNameOr(W, CHOOSE k \in event.killer : TRUE,
                                    "an unknown assailant")
         ELSE CharacterNameOr(W, event.entity, "Someone") \o " has died"
    ELSE event.kind

\* format!("{:02}", n) for n < 100, as a pair of digits
TwoDigits(n) == <<n \div 10, n % 10>>

\* extract_world_context
extract_world_context(W) ==
    [time_of_day |-> [hour |-> TwoDigits(W.time.hour), minute |-> TwoDigits(W.time.minute)],
     day |-> W.time.day,
     season |-> W.time.season,
     weather |-> W.weather,
     is_night |-> is_night(W)]

\* the hp percentage rounded to the nearest integer, halves upwards
hp_percent_rounded(stats) ==
    IF stats.max_hp > 0
    THEN IF stats.current_hp < 0 THEN 0
         ELSE (stats.current_hp * 200 + stats.max_hp) \div (2 * stats.max_hp)
    ELSE 100

\* current_hp_percent: (current_hp as f32 / max_hp as f32 * 100.0) as u32 if
\* max_hp > 0, else 100; the cast drops the fraction and turns a negative
\* value into 0. For max_hp below 20 the f32 quotient times 100 has the
\* integer part of current_hp * 100 / max_hp.
hp_percent(stats) ==
    IF stats.max_hp > 0
    THEN IF stats.current_hp < 0 THEN 0
         ELSE (stats.current_hp * 100) \div stats.max_hp
    ELSE 100

\* extract_character_context: one entry for every involved entity that is a
\* character of the world, in the order of involved_entities
extract_character_context(W, involved) ==
    LET present == SelectSeq(involved, LAMBDA id : id \in DOMAIN W.characters) IN
    [i \in 1..Len(present) |->
        [name |-> W.characters[present[i]].name,
         current_hp_percent |-> hp_percent(W.characters[present[i]].stats)]]

(***************************************************************************)
(* ActivationConfig                                                        *)
(***************************************************************************)
\* ActivationConfig::default
DefaultConfig ==
    [initial_energy |-> Rat(1, 1), decay_rate |-> Rat(1, 2), max_depth |-> 2,
     energy_threshold |-> Rat(1, 10), max_facts |-> 20]

(***************************************************************************)
(* Operations on the fact store                                            *)
(***************************************************************************)
NoRet == [op |-> "none", id |-> "", ok |-> FALSE, val |-> {}]

IdleAssembler ==
    /\ activation = EmptyFn
    /\ config = DefaultConfig
    /\ trigger = <<>>
    /\ pc = "idle"
    /\ depth = 0
    /\ collected = <<>>

Tags == {TagEntity("e1"), TagConcept("A")}

FactTypes == {Generic, Relationship("e1", "e2"), Secret("e2"), Trait("e1")}

\* graph.add_fact(Fact::new(..).with_type(ty).with_tags(ts))
AddFact ==
    \E id \in FactIds, ty \in FactTypes, ts \in SUBSET Tags :
        LET fact == [with_type(Fact_new(id), ty) EXCEPT !.tags = ts] IN
        /\ graph' = add_fact(graph, fact)
        /\ ret' = [op |-> "add_fact", id |-> id, ok |-> TRUE, val |-> {}]
        /\ UNCHANGED <<draft, prev, ops, assemblerVars, worldVars>>

\* graph.remove_fact(id)
RemoveFact ==
    \E id \in FactIds :
        /\ graph' = remove_fact(graph, id)
        /\ ret' = [op |-> "remove_fact", id |-> id,
                   ok |-> remove_fact_ret(graph, id) # {},
                   val |-> remove_fact_ret(graph, id)]
        /\ UNCHANGED <<draft, prev, ops, assemblerVars, worldVars>>

\* graph.reveal_fact(id)
RevealFact ==
    \E id \in FactIds :
        /\ graph' = reveal_fact(graph, id)
        /\ ret' = [op |-> "reveal_fact", id |-> id,
                   ok |-> reveal_fact_ret(graph, id), val |-> {}]
        /\ UNCHANGED <<draft, prev, ops, assemblerVars, worldVars>>

InitGraph ==
    /\ graph = NewGraph
    /\ draft = {}
    /\ ret = NoRet
    /\ prev = NoRet
    /\ ops = 0
    /\ IdleAssembler
    /\ world = NewWorld
    /\ context = {}

NextFacts == AddFact \/ RemoveFact \/ RevealFact

SpecFacts == InitGraph /\ [][NextFacts]_vars

(***************************************************************************)
(* Index invariants of the fact store (SpecFacts)                          *)
(***************************************************************************)
LiveIds == DOMAIN graph.facts

InTagIndex(id, T) ==
    T \in DOMAIN graph.tag_to_facts /\ id \in graph.tag_to_facts[T]

InEntityIndex(id, e) ==
    e \in DOMAIN graph.fact_by_entity /\ id \in graph.fact_by_entity[e]

\* C1: for every fact id i and every tag T, i is in tag_to_facts[T] if and
\* only if facts holds a live fact with id i whose tag set contains T.
C1_IndexConsistency ==
    \A id \in FactIds, T \in Tags :
        InTagIndex(id, T) <=> (id \in LiveIds /\ T \in graph.facts[id].tags)

\* C2: whenever remove_fact(id) returns a fact, the id occurs afterwards in no
\* set of tag_to_facts and in no set of fact_by_entity.
C2_NoDanglingAfterRemove ==
    (ret.op = "remove_fact" /\ ret.ok) =>
        /\ \A T \in DOMAIN graph.tag_to_facts : ret.id \notin graph.tag_to_facts[T]
        /\ \A e \in DOMAIN graph.fact_by_entity : ret.id \notin graph.fact_by_entity[e]

\* C7: every live fact F is in fact_by_entity[e] for every Tag::Entity(e) in
\* F.tags and for every entity referenced by a Relationship, Secret or Trait
\* fact type, whether or not F carries an Entity tag.
C7_EntityIndexComplete ==
    \A id \in LiveIds :
        LET F == graph.facts[id] IN
        /\ \A e \in TagEntities(F.tags) : InEntityIndex(id, e)
        /\ \A e \in TypeEntities(F.fact_type) : InEntityIndex(id, e)

\* a Relationship fact without Entity tags is live and indexed under both of
\* its entities, after a removal of another fact
C7_Witness ==
    /\ ret.op = "remove_fact" /\ ret.ok
    /\ \E id \in LiveIds :
        /\ graph.facts[id].fact_type = Relationship("e1", "e2")
        /\ TagEntities(graph.facts[id].tags) = {}
        /\ InEntityIndex(id, "e1") /\ InEntityIndex(id, "e2")

\* C19: remove_fact(id) and reveal_fact(id) on an id that is not in the graph
\* return None and false and leave facts, tag_to_facts, fact_by_entity and
\* associations unchanged; on a present id remove_fact returns the stored
\* fact and reveal_fact returns true.
C19_NotFoundByValue ==
    [][/\ ret'.op = "remove_fact" =>
            IF ret'.id \in DOMAIN graph.facts
            THEN ret'.ok /\ ret'.val = {graph.facts[ret'.id]}
            ELSE ~ret'.ok /\ ret'.val = {} /\ graph' = graph
       /\ ret'.op = "reveal_fact" =>
            IF ret'.id \in DOMAIN graph.facts
            THEN ret'.ok
            ELSE ~ret'.ok /\ graph' = graph]_vars

\* remove_fact returned None for an id that is not live although the tag
\* index still names it, and another fact is live
C19_Witness ==
    /\ ret.op = "remove_fact" /\ ~ret.ok
    /\ ret.id \notin LiveIds
    /\ LiveIds # {}
    /\ \E T \in DOMAIN graph.tag_to_facts : ret.id \in graph.tag_to_facts[T]

\* C23: add_fact of a fact whose id is already in the graph leaves facts,
\* tag_to_facts and fact_by_entity as remove_fact(id) followed by add_fact of
\* the new fact would, and does not change fact_count.
C23_ReAddIsRemoveThenAdd ==
    [][(ret'.op = "add_fact" /\ ret'.id \in DOMAIN graph.facts) =>
        LET canonical == add_fact(remove_fact(graph, ret'.id), graph'.facts[ret'.id]) IN
        /\ graph'.facts = canonical.facts
        /\ graph'.tag_to_facts = canonical.tag_to_facts
        /\ graph'.fact_by_entity = canonical.fact_by_entity
        /\ fact_count(graph') = fact_count(graph)]_vars

\* C30: remove_fact deletes no key of tag_to_facts. When remove_fact has
\* removed a fact carrying T and no live fact carries T any more, has_tag(T)
\* is still true, all_tags still yields T and facts_by_tag(T) is empty; over
\* add_fact / remove_fact calls no tag stops being a key and tag_count never
\* decreases.
C30_TagKeysPersist ==
    /\ []((ret.op = "remove_fact" /\ ret.ok) =>
            \A removed \in ret.val :
                \A T \in removed.tags :
                    (\A id \in LiveIds : T \notin graph.facts[id].tags) =>
                        /\ has_tag(graph, T)
                        /\ T \in all_tags(graph)
                        /\ facts_by_tag(graph, T) = {})
    /\ [][/\ tag_count(graph') >= tag_count(graph)
          /\ \A T \in all_tags(graph) : has_tag(graph', T)]_vars

(***************************************************************************)
(* The Fact builder and the reveal flags (SpecReveal)                      *)
(***************************************************************************)
BuilderTags == {TagConcept("A")}

BuilderTypes == {Secret("e1")}

\* let mut fact = Fact::new(..)   (the id is a public field of the caller's choice)
NewFact ==
    \E id \in FactIds :
        /\ draft' = {Fact_new(id)}
        /\ UNCHANGED <<graph, ret, prev, ops, assemblerVars, worldVars>>

\* fact = fact.with_tag(t)
DraftWithTag ==
    \E f \in draft, t \in BuilderTags :
        /\ draft' = {with_tag(f, t)}
        /\ UNCHANGED <<graph, ret, prev, ops, assemblerVars, worldVars>>

\* fact = fact.with_type(ty)
DraftWithType ==
    \E f \in draft, ty \in BuilderTypes :
        /\ draft' = {with_type(f, ty)}
        /\ UNCHANGED <<graph, ret, prev, ops, assemblerVars, worldVars>>

\* fact = fact.with_known_to_player(k)
DraftWithKnownToPlayer ==
    \E f \in draft, k \in BOOLEAN :
        /\ draft' = {with_known_to_player(f, k)}
        /\ UNCHANGED <<graph, ret, prev, ops, assemblerVars, worldVars>>

\* fact.reveal()
DraftReveal ==
    \E f \in draft :
        /\ draft' = {reveal(f)}
        /\ UNCHANGED <<graph, ret, prev, ops, assemblerVars, worldVars>>

\* graph.add_fact(fact)
AddDraft ==
    \E f \in draft :
        /\ graph' = add_fact(graph, f)
        /\ draft' = {}
        /\ ret' = [op |-> "add_fact", id |-> f.id, ok |-> TRUE, val |-> {}]
        /\ UNCHANGED <<prev, ops, assemblerVars, worldVars>>

NextReveal ==
    \/ NewFact
    \/ DraftWithTag
    \/ DraftWithType
    \/ DraftWithKnownToPlayer
    \/ DraftReveal
    \/ AddDraft
    \/ RemoveFact
    \/ RevealFact

SpecReveal == InitGraph /\ [][NextReveal]_vars

\* C6: once a stored fact's revealed flag is true it stays true after every
\* later graph operation that does not remove it, and in every reachable
\* state revealed = true implies known_to_player = true.
C6_RevealMonotone ==
    /\ [](\A id \in LiveIds :
            graph.facts[id].revealed => graph.facts[id].known_to_player)
    /\ [][\A id \in LiveIds :
            (graph.facts[id].revealed /\ id \in DOMAIN graph'.facts)
                => graph'.facts[id].revealed]_vars

(***************************************************************************)
(* Associations (SpecAssoc)                                                *)
(***************************************************************************)
MaxAssocOps == 2

AssocTags == {TagConcept("A"), TagConcept("B")}

AssocWeights == {Rat(-1, 2), Rat(4, 5), Rat(2, 1)}

AssocKinds == {"Direct", "Semantic"}

BidirectionalKinds == {"Semantic"}

CoTagSets == {{TagConcept("A"), TagConcept("B")}, {TagConcept("A"), TagConcept("C")}}

HasEdge(G, from, to) == FindTarget(get_associations(G, from), to) # 0

\* graph.add_association(from, to, weight, kind)
AddAssociation ==
    \E from \in AssocTags, to \in AssocTags, w \in AssocWeights, k \in AssocKinds :
        /\ ops < MaxAssocOps
        /\ graph' = add_association(graph, from, to, w, k)
        /\ ret' = [op |-> "add_association", from |-> from, to |-> to,
                   weight |-> w, kind |-> k, fresh |-> ~HasEdge(graph, from, to)]
        /\ prev' = ret
        /\ ops' = ops + 1
        /\ UNCHANGED <<draft, assemblerVars, worldVars>>

\* graph.add_bidirectional_association(a, b, weight, kind)
AddBidirectionalAssociation ==
    \E a \in AssocTags, b \in AssocTags, w \in AssocWeights, k \in BidirectionalKinds :
        /\ ops < MaxAssocOps
        /\ graph' = add_bidirectional_association(graph, a, b, w, k)
        /\ ret' = [op |-> "add_bidirectional_association", from |-> a, to |-> b,
                   weight |-> w, kind |-> k, fresh |-> ~HasEdge(graph, a, b)]
        /\ prev' = ret
        /\ ops' = ops + 1
        /\ UNCHANGED <<draft, assemblerVars, worldVars>>

\* graph.build_co_occurrence_associations()
BuildCoOccurrence ==
    \E order \in Orders(CoOccurrencePairs(graph)) :
        /\ ops < MaxAssocOps
        /\ graph' = build_co_occurrence_associations(graph, order)
        /\ ret' = [op |-> "build_co_occurrence_associations"]
        /\ prev' = ret
        /\ ops' = ops + 1
        /\ UNCHANGED <<draft, assemblerVars, worldVars>>

\* graph.add_fact(Fact::new(..).with_tags(ts)) with two tags on the fact
AddCoFact ==
    \E id \in FactIds, ts \in CoTagSets :
        /\ id \notin DOMAIN graph.facts
        /\ graph' = add_fact(graph, [Fact_new(id) EXCEPT !.tags = ts])
        /\ ret' = [op |-> "add_fact", id |-> id, ok |-> TRUE, val |-> {}]
        /\ UNCHANGED <<draft, prev, ops, assemblerVars, worldVars>>

NextAssoc ==
    \/ AddAssociation
    \/ AddBidirectionalAssociation
    \/ BuildCoOccurrence
    \/ AddCoFact

SpecAssoc == InitGraph /\ [][NextAssoc]_vars

\* weight of the edge from -> to (of the first one, should there be several)
EdgeWeight(G, from, to) ==
    get_associations(G, from)[FindTarget(get_associations(G, from), to)].weight

\* C3: every stored Association has 0 <= weight <= 1.
C3_WeightsClamped ==
    \A t \in DOMAIN graph.associations :
        \A i \in 1..Len(graph.associations[t]) :
            /\ RLe(R0, graph.associations[t][i].weight)
            /\ RLe(graph.associations[t][i].weight, R1)

\* the case of C4: add_association(from, to, w1, _) created the edge and the
\* next call was add_association(from, to, w2, _)
C4_TwoInsertions ==
    /\ prev.op = "add_association" /\ prev.fresh
    /\ ret.op = "add_association"
    /\ ret.from = prev.from /\ ret.to = prev.to

\* C4 (as claimed): after add_association(from,to,w1,_) on a missing edge and
\* then add_association(from,to,w2,_), the edge weight is exactly (w1+w2)/2.
C4_AverageOfArguments ==
    C4_TwoInsertions =>
        EdgeWeight(graph, ret.from, ret.to) = RHalf(RAdd(prev.weight, ret.weight))

\* C4 (amended): the edge weight is (clamp(w1, 0, 1) + w2) / 2: the first
\* weight is clamped on insertion, the second enters the average as given.
C4_AverageOfClampedFirst ==
    C4_TwoInsertions =>
        EdgeWeight(graph, ret.from, ret.to) =
            RHalf(RAdd(clamp01(prev.weight), ret.weight))

\* two insertions on one edge whose first weight is above 1
C4_Witness ==
    /\ C4_TwoInsertions
    /\ RLt(R1, prev.weight)
    /\ EdgeWeight(graph, ret.from, ret.to) = RHalf(RAdd(R1, ret.weight))

\* C5: for every ordered pair of tags (from, to), associations[from] holds at
\* most one Association whose target is to.
C5_AtMostOneEdge ==
    \A from \in DOMAIN graph.associations :
        \A i, j \in 1..Len(graph.associations[from]) :
            graph.associations[from][i].target = graph.associations[from][j].target
                => i = j

\* a self-loop was inserted by add_bidirectional_association(a, a, ..) and the
\* co-occurrence edges were built over an edge that existed already
C5_Witness ==
    /\ ret.op = "build_co_occurrence_associations"
    /\ prev.op = "add_bidirectional_association" /\ prev.from = prev.to
    /\ HasEdge(graph, prev.from, prev.from)
    /\ HasEdge(graph, TagConcept("A"), TagConcept("B"))
    /\ HasEdge(graph, TagConcept("B"), TagConcept("A"))
    /\ Len(get_associations(graph, TagConcept("A"))) >= 2

\* the targets of an adjacency list, in its order
C24_Targets(list) == [i \in 1..Len(list) |-> list[i].target]

\* C24: add_association(from, to, w, k) on an edge from -> to that exists
\* changes only the weight of that edge: its kind and its position stay,
\* every other edge, the facts and both fact indices are unchanged. No call
\* reorders an adjacency list: the targets a list held before a call are a
\* prefix of those it holds after it, so get_associations(from) lists the
\* targets in order of first insertion.
C24_UpdateFrame ==
    [][/\ (ret'.op = "add_association" /\ HasEdge(graph, ret'.from, ret'.to)) =>
            LET old == get_associations(graph, ret'.from)
                new == get_associations(graph', ret'.from)
                i == FindTarget(old, ret'.to)
            IN  /\ Len(new) = Len(old)
                /\ new[i].target = old[i].target
                /\ new[i].association_type = old[i].association_type
                /\ \A j \in 1..Len(old) : j # i => new[j] = old[j]
                /\ DOMAIN graph'.associations = DOMAIN graph.associations
                /\ \A t \in DOMAIN graph.associations :
                        t # ret'.from => graph'.associations[t] = graph.associations[t]
                /\ graph'.facts = graph.facts
                /\ graph'.tag_to_facts = graph.tag_to_facts
                /\ graph'.fact_by_entity = graph.fact_by_entity
       /\ \A t \in DOMAIN graph.associations :
            /\ t \in DOMAIN graph'.associations
            /\ Len(graph.associations[t]) <= Len(graph'.associations[t])
            /\ SubSeq(C24_Targets(graph'.associations[t]), 1, Len(graph.associations[t]))
                    = C24_Targets(graph.associations[t])]_vars

\* add_association(from, to, w, Direct) met the Semantic edge that
\* add_bidirectional_association had inserted: the edge is still Semantic,
\* its weight is the average, and the edge back is in the graph
C24_Witness ==
    /\ prev.op = "add_bidirectional_association" /\ prev.from # prev.to
    /\ ret.op = "add_association" /\ ~ret.fresh
    /\ ret.kind = "Direct"
    /\ get_associations(graph, ret.from)[FindTarget(get_associations(graph, ret.from),
                                                    ret.to)].association_type = "Semantic"
    /\ EdgeWeight(graph, ret.from, ret.to) # EdgeWeight(graph, ret.to, ret.from)
    /\ HasEdge(graph, ret.to, ret.from)

(***************************************************************************)
(* Spreading activation (SpecSpread)                                       *)
(***************************************************************************)
MaxEdgeOps == 2

MaxDepth == 2

MaxTriggers == 2

TagA == TagConcept("A")
TagB == TagConcept("B")
TagC == TagConcept("C")

SpreadTagSet == {TagA, TagB, TagC}

SpreadWeights == {Rat(4, 5)}

SpreadConfigs ==
    {[initial_energy |-> Rat(1, 1), decay_rate |-> Rat(1, 2), max_depth |-> d,
      energy_threshold |-> th, max_facts |-> 10] :
        d \in 0..MaxDepth, th \in {Rat(1, 100), Rat(1, 2)}}

TriggerLists == UNION {[1..n -> SpreadTagSet] : n \in 0..MaxTriggers}

\* graph.add_association(from, to, w, Direct) while no assembly is running
AddEdge ==
    \E from \in SpreadTagSet, to \in SpreadTagSet, w \in SpreadWeights :
        /\ pc = "idle"
        /\ ops < MaxEdgeOps
        /\ graph' = add_association(graph, from, to, w, "Direct")
        /\ ops' = ops + 1
        /\ UNCHANGED <<draft, ret, prev, assemblerVars, worldVars>>

\* ContextAssembler::new(cfg).spread_activation(&graph, tags), up to the
\* depth loop
StartSpread ==
    \E cfg \in SpreadConfigs, tags \in TriggerLists :
        /\ pc = "idle"
        /\ config' = cfg
        /\ trigger' = tags
        /\ activation' = InitEnergies(EmptyFn, cfg, tags)
        /\ depth' = 0
        /\ pc' = IF cfg.max_depth = 0 THEN "done" ELSE "spread"
        /\ UNCHANGED <<graph, draft, ret, prev, ops, collected, worldVars>>

\* a depth loop over 0..=max_depth: one iteration more
SpreadStepInclusive ==
    \E order \in Orders(DOMAIN activation) :
        /\ pc = "spread"
        /\ activation' = spread_step(graph, config, activation, order)
        /\ depth' = depth + 1
        /\ pc' = IF depth = config.max_depth THEN "done" ELSE "spread"
        /\ UNCHANGED <<graph, draft, ret, prev, ops, config, trigger, collected, worldVars>>

\* one iteration of the depth loop; the energies are visited in some order
SpreadStep ==
    \E order \in Orders(DOMAIN activation) :
        /\ pc = "spread"
        /\ activation' = spread_step(graph, config, activation, order)
        /\ depth' = depth + 1
        /\ pc' = IF depth + 1 = config.max_depth THEN "done" ELSE "spread"
        /\ UNCHANGED <<graph, draft, ret, prev, ops, config, trigger, collected, worldVars>>

NextSpread == AddEdge \/ StartSpread \/ SpreadStep

SpecSpread == InitGraph /\ [][NextSpread]_vars

\* number of occurrences of a tag in the trigger list
Occurrences(tags, t) == Cardinality({i \in 1..Len(tags) : tags[i] = t})

\* the edges t -> u of the graph, as pairs <<t, position in associations[t]>>
EdgesInto(u) ==
    {e \in UNION {{t} \X (1..Len(graph.associations[t])) : t \in DOMAIN graph.associations} :
        graph.associations[e[1]][e[2]].target = u}

\* S_k[u] of the snapshot-then-merge recurrence:
\*   S_0[u] = initial_energy * occurrences of u in the trigger list
\*   S_{k+1}[u] = S_k[u] + sum over edges t -> u of weight w with
\*                S_k[t] >= energy_threshold of S_k[t] * w * decay_rate
RECURSIVE SnapshotEnergy(_, _)
SnapshotEnergy(k, u) ==
    IF k = 0
    THEN RMul(config.initial_energy, Rat(Occurrences(trigger, u), 1))
    ELSE RAdd(SnapshotEnergy(k - 1, u),
              SumFn([e \in EdgesInto(u) |->
                        IF RLt(SnapshotEnergy(k - 1, e[1]), config.energy_threshold)
                        THEN R0
                        ELSE RMul(RMul(SnapshotEnergy(k - 1, e[1]),
                                       graph.associations[e[1]][e[2]].weight),
                                  config.decay_rate)]))

\* the graph of test_activation_decay: A -> B (0.8), B -> C (0.8)
ChainGraph ==
    graph.associations =
        (TagA :> <<[target |-> TagB, weight |-> Rat(4, 5), association_type |-> "Direct"]>>)
        @@ (TagB :> <<[target |-> TagC, weight |-> Rat(4, 5), association_type |-> "Direct"]>>)

\* initial 1.0, decay 0.5, threshold 0.01 and the given max_depth
ChainConfig(d) ==
    [initial_energy |-> Rat(1, 1), decay_rate |-> Rat(1, 2), max_depth |-> d,
     energy_threshold |-> Rat(1, 100), max_facts |-> 10]

\* spread_activation has returned for the chain graph, trigger {A}, depth d
ChainDone(d) ==
    /\ pc = "done"
    /\ ChainGraph
    /\ config = ChainConfig(d)
    /\ trigger = <<TagA>>

\* C8: after k steps the energies are S_k of the snapshot-then-merge
\* recurrence, so energy received in a step is not passed on in that step;
\* for A -> B (0.8), B -> C (0.8), initial 1.0, decay 0.5, max_depth 1,
\* threshold 0.01, trigger {A} the result is A = 1.0, B = 0.4, C = 0.
C8_SnapshotThenMerge ==
    /\ pc \in {"spread", "done"} =>
        \A u \in SpreadTagSet : get_energy(activation, u) = SnapshotEnergy(depth, u)
    /\ ChainDone(1) =>
        /\ get_energy(activation, TagA) = Rat(1, 1)
        /\ get_energy(activation, TagB) = Rat(2, 5)
        /\ get_energy(activation, TagC) = R0

\* the chain example at max_depth 1 has run: B received energy, C none
C8_Witness ==
    /\ ChainDone(1)
    /\ depth = 1
    /\ TagB \in DOMAIN activation
    /\ TagC \notin DOMAIN activation

\* C9 (as claimed): for A -> B (0.8), B -> C (0.8), initial 1.0, decay 0.5,
\* max_depth 2, threshold 0.01, trigger {A}, spread_activation returns
\* A = 1.0, B = 0.4, C = 0.16, with B > C > 0.
C9_TwoHops ==
    ChainDone(2) =>
        /\ get_energy(activation, TagA) = Rat(1, 1)
        /\ get_energy(activation, TagB) = Rat(2, 5)
        /\ get_energy(activation, TagC) = Rat(4, 25)
        /\ RLt(get_energy(activation, TagC), get_energy(activation, TagB))
        /\ RLt(R0, get_energy(activation, TagC))

\* C9 (amended): the result is A = 1.0, B = 0.8, C = 0.16, with B > C > 0:
\* A is still above the threshold in the second step and spreads 0.4 to B
\* once more.
C9_TwoHopsAccumulated ==
    ChainDone(2) =>
        /\ get_energy(activation, TagA) = Rat(1, 1)
        /\ get_energy(activation, TagB) = Rat(4, 5)
        /\ get_energy(activation, TagC) = Rat(4, 25)
        /\ RLt(get_energy(activation, TagC), get_energy(activation, TagB))
        /\ RLt(R0, get_energy(activation, TagC))

\* the chain example at max_depth 2 has run both steps and C holds energy
C9_Witness ==
    /\ ChainDone(2)
    /\ depth = 2
    /\ TagC \in DOMAIN activation

\* what the edge e = <<t, position>> passes on in a step that starts from the
\* energies S: S[t] * weight * decay_rate if S[t] >= energy_threshold, else 0
C25_Passed(S, e) ==
    IF e[1] \in DOMAIN S /\ ~RLt(S[e[1]], config.energy_threshold)
    THEN RMul(RMul(S[e[1]], graph.associations[e[1]][e[2]].weight), config.decay_rate)
    ELSE R0

\* C25: in each step of spread_activation a tag whose pre-step energy is
\* below energy_threshold passes nothing on, and a tag at or above it passes
\* energy * weight * decay_rate along every out-edge, however small that is
\* and whatever the target's energy becomes; no tag leaves the state, and
\* hot_tags(energy_threshold) on the returned state yields exactly the tags
\* at or above the threshold.
C25_ThresholdAtSource ==
    /\ [][(pc = "spread" /\ depth' = depth + 1) =>
            /\ \A t \in DOMAIN activation : t \in DOMAIN activation'
            /\ \A u \in SpreadTagSet :
                    get_energy(activation', u) =
                        RAdd(get_energy(activation, u),
                             SumFn([e \in EdgesInto(u) |-> C25_Passed(activation, e)]))]_vars
    /\ [](pc = "done" =>
            \A order \in Orders(DOMAIN activation) :
                LET hot == hot_tags(activation, config.energy_threshold, order) IN
                {hot[i][1] : i \in 1..Len(hot)} =
                    {t \in DOMAIN activation :
                        ~RLt(activation[t], config.energy_threshold)})

\* the chain A -> B -> C with threshold 0.5 and max_depth 2: A passed 0.4 to B
\* in both steps although 0.4 is below the threshold, B (0.4 before the
\* second step) passed nothing to C, and B is in the returned state
C25_Witness ==
    /\ pc = "done" /\ depth = 2
    /\ ChainGraph
    /\ config.energy_threshold = Rat(1, 2)
    /\ trigger = <<TagA>>
    /\ get_energy(activation, TagB) = Rat(4, 5)
    /\ TagC \notin DOMAIN activation

\* the orders in which the elements of a list can be arranged
C26_ListOrders(list) ==
    {[i \in 1..Len(list) |-> list[p[i]]] : p \in Orders(1..Len(list))}

\* the graphs that differ from the graph only in the order of the edges in
\* the adjacency lists
C26_Reordered ==
    {[graph EXCEPT !.associations = a] :
        a \in {f \in [DOMAIN graph.associations ->
                        UNION {C26_ListOrders(graph.associations[t]) :
                                t \in DOMAIN graph.associations}] :
                \A t \in DOMAIN graph.associations :
                    f[t] \in C26_ListOrders(graph.associations[t])}}

\* C26: in exact arithmetic a step of spread_activation yields the same
\* energies for every order in which it visits the active tags and for every
\* order of the edges in the adjacency lists; as the runs start from the same
\* trigger energies, runs that differ only in these orders are in equal
\* states after every step.
C26_OrderIndependent ==
    pc = "spread" =>
        LET one == spread_step(graph, config, activation,
                               CHOOSE order \in Orders(DOMAIN activation) : TRUE)
        IN  \A G \in C26_Reordered, order \in Orders(DOMAIN activation) :
                spread_step(G, config, activation, order) = one

\* a step has run on the chain A -> B -> C with both A and B triggered, and
\* another step is to come: C holds what B passed on of its trigger energy
C26_Witness ==
    /\ pc = "spread" /\ depth = 1
    /\ ChainGraph
    /\ trigger = <<TagA, TagB>>
    /\ get_energy(activation, TagB) = Rat(7, 5)
    /\ get_energy(activation, TagC) = Rat(2, 5)

\* C27: spread_activation ends on every graph, cycles and self-loops
\* included, after exactly max_depth steps: while it runs fewer than
\* max_depth steps are done and the next one can be taken (the energies have
\* an order to be visited in), every step counts one up, and it has returned
\* exactly when max_depth steps are done; with
\* max_depth = 0 it returns the trigger energies alone. It never normalizes:
\* on a cycle an energy may end above initial_energy.
C27_TerminatesAfterMaxDepth ==
    /\ [](pc = "spread" =>
            (depth < config.max_depth /\ Orders(DOMAIN activation) # {}))
    /\ [](pc = "done" =>
            /\ depth = config.max_depth
            /\ config.max_depth = 0 =>
                    activation = InitEnergies(EmptyFn, config, trigger))
    /\ [][pc = "spread" =>
            /\ depth' = depth + 1
            /\ pc' = (IF depth' = config.max_depth THEN "done" ELSE "spread")]_vars

\* spread_activation has returned after two steps on the cycle A -> B -> A
\* with trigger {A}: A ends above its initial energy
C27_Witness ==
    /\ pc = "done" /\ depth = 2
    /\ trigger = <<TagA>>
    /\ HasEdge(graph, TagA, TagB) /\ HasEdge(graph, TagB, TagA)
    /\ RLt(config.initial_energy, get_energy(activation, TagA))

\* the tags that a directed path of at most k association edges reaches from
\* a trigger tag (the trigger tags themselves for k = 0)
RECURSIVE C29_Within(_)
C29_Within(k) ==
    IF k = 0 THEN {trigger[i] : i \in 1..Len(trigger)}
    ELSE C29_Within(k - 1) \cup
         {u \in SpreadTagSet : \E t \in C29_Within(k - 1) : HasEdge(graph, t, u)}

\* C29: with initial_energy > 0 and weights and decay_rate >= 0, after k
\* steps of spread_activation every tag with non-zero energy is a trigger tag
\* or is reached from one by a directed path of at most k edges (at most
\* max_depth in the state returned), every trigger tag has at least its
\* initial energy, and no step lowers the energy of a tag.
C29_Locality ==
    /\ [](pc \in {"spread", "done"} =>
            /\ depth <= config.max_depth
            /\ \A t \in DOMAIN activation :
                    activation[t] # R0 => t \in C29_Within(depth)
            /\ \A i \in 1..Len(trigger) :
                    RLe(config.initial_energy, get_energy(activation, trigger[i])))
    /\ [][pc = "spread" =>
            \A t \in DOMAIN activation :
                RLe(activation[t], get_energy(activation', t))]_vars

\* the chain A -> B -> C was spread from trigger {B} for two steps: C has
\* energy, A has none although an edge leaves it, B kept its initial energy
C29_Witness ==
    /\ pc = "done" /\ depth = 2
    /\ ChainGraph
    /\ trigger = <<TagB>>
    /\ RLt(R0, get_energy(activation, TagC))
    /\ TagA \notin DOMAIN activation
    /\ get_energy(activation, TagB) = config.initial_energy

(***************************************************************************)
(* Fact collection (SpecCollect)                                           *)
(***************************************************************************)
MaxFactsBound == 2

CollectTags == {TagA, TagB}

Importances == {Rat(1, 2), Rat(1, 1)}

Energies == {Rat(1, 20), Rat(1, 2), Rat(1, 1)}

CollectConfigs == {[DefaultConfig EXCEPT !.max_facts = k] : k \in 1..MaxFactsBound}

\* graph.add_fact(Fact::new(..).with_tags(ts).with_importance(imp)), fresh id
AddScoredFact ==
    \E id \in FactIds, ts \in SUBSET CollectTags, imp \in Importances :
        /\ id \notin DOMAIN graph.facts
        /\ graph' = add_fact(graph, with_importance([Fact_new(id) EXCEPT !.tags = ts], imp))
        /\ ret' = [op |-> "add_fact", id |-> id, ok |-> TRUE, val |-> {}]
        /\ UNCHANGED <<draft, prev, ops, assemblerVars, worldVars>>

\* activation.set_energy(tag, e)
SetEnergy ==
    \E tag \in CollectTags, e \in Energies :
        /\ activation' = set_energy(activation, tag, e)
        /\ ret' = [op |-> "set_energy"]
        /\ UNCHANGED <<graph, draft, prev, ops, config, trigger, pc, depth, collected, worldVars>>

\* ContextAssembler::new(cfg).collect_facts(&graph, &activation)
CollectFacts ==
    \E cfg \in CollectConfigs :
        \E tag_order \in Orders(DOMAIN activation),
           score_order \in Orders(ScoredIds(graph, activation, cfg)) :
            /\ config' = cfg
            /\ collected' = collect_facts(graph, activation, cfg, tag_order, score_order)
            /\ ret' = [op |-> "collect_facts"]
            /\ UNCHANGED <<graph, draft, prev, ops, activation, trigger, pc, depth, worldVars>>

NextCollect == AddScoredFact \/ SetEnergy \/ CollectFacts

SpecCollect == InitGraph /\ [][NextCollect]_vars

\* C10: for a fixed graph, activation state and config, every evaluation of
\* collect_facts returns the same ordered list, whatever the iteration order
\* of the hash maps.
C10_CollectDeterministic ==
    ret.op = "collect_facts" =>
        \A tag_order \in Orders(DOMAIN activation),
           score_order \in Orders(ScoredIds(graph, activation, config)) :
            collect_facts(graph, activation, config, tag_order, score_order) = collected

\* the tags of fact id whose energy is at least the energy threshold
C11_HotTagsOf(id) ==
    {t \in graph.facts[id].tags \cap DOMAIN activation :
        ~RLt(activation[t], config.energy_threshold)}

\* score(F) = F.importance x sum of energy(t) over the hot tags t of F
C11_Score(id) ==
    RMul(graph.facts[id].importance,
         SumFn([t \in C11_HotTagsOf(id) |-> activation[t]]))

\* C11: on a graph built by add_fact of facts with distinct ids, collect_facts
\* returns a duplicate-free list of at most max_facts facts, each with a tag
\* whose energy is >= energy_threshold, ordered by non-increasing score
\* (importance x sum of the energies of its hot tags); no fact left out has
\* a strictly higher score than a fact returned.
C11_TopByScore ==
    ret.op = "collect_facts" =>
        LET n == Len(collected) IN
        /\ \A i, j \in 1..n : collected[i] = collected[j] => i = j
        /\ n <= config.max_facts
        /\ \A i \in 1..n :
            /\ collected[i] \in DOMAIN graph.facts
            /\ C11_HotTagsOf(collected[i]) # {}
        /\ \A i, j \in 1..n :
            i < j => RLe(C11_Score(collected[j]), C11_Score(collected[i]))
        /\ \A id \in DOMAIN graph.facts :
            id \notin {collected[i] : i \in 1..n} =>
                \A i \in 1..n : ~RLt(C11_Score(collected[i]), C11_Score(id))

\* max_facts = 1 cut the list: the fact returned has two hot tags and beats a
\* fact of higher importance that was left out with a lower, positive score
C11_Witness ==
    /\ ret.op = "collect_facts"
    /\ config.max_facts = 1
    /\ Len(collected) = 1
    /\ Cardinality(C11_HotTagsOf(collected[1])) = 2
    /\ \E id \in DOMAIN graph.facts :
        /\ id # collected[1]
        /\ C11_HotTagsOf(id) # {}
        /\ RLt(graph.facts[collected[1]].importance, graph.facts[id].importance)
        /\ RLt(C11_Score(id), C11_Score(collected[1]))

(***************************************************************************)
(* Context assembly over a graph and a world (SpecAssemble)                *)
(***************************************************************************)
CharacterNames == [e \in Entities |-> IF e = "e1" THEN "Hero" ELSE "Rival"]

AssembleStats == {<<2, 3>>}

AssembleTagSets == {{TagEntity("e1")}, {TagLocation("l1")}}

AssembleEvents ==
    {[variant |-> [kind |-> "Other"],
      to_tags |-> <<TagEntity("e1")>>, primary_entity |-> {"e1"},
      involved_entities |-> <<"e1">>],
     [variant |-> [kind |-> "Other"],
      to_tags |-> <<>>, primary_entity |-> {},
      involved_entities |-> <<"e2", "e1">>]}

\* world.add_character(c) for a character with the given stats; the graph
\* and the world are built while pc = "idle", before the assembler is called
AddCharacter ==
    \E id \in Entities, hp \in AssembleStats :
        /\ pc = "idle"
        /\ world' = add_character(world, Character_new(id, CharacterNames[id], hp[1], hp[2]))
        /\ ret' = [op |-> "add_character"]
        /\ UNCHANGED <<graph, draft, prev, ops, assemblerVars, context>>

\* world.set_entity_location(e1, l)
SetEntityLocation ==
    \E l \in Locations :
        /\ pc = "idle"
        /\ world' = set_entity_location(world, "e1", l)
        /\ ret' = [op |-> "set_entity_location"]
        /\ UNCHANGED <<graph, draft, prev, ops, assemblerVars, context>>

\* graph.add_fact(Fact::new(..).with_tags(ts)), fresh id
AddAssembleFact ==
    \E id \in FactIds, ts \in AssembleTagSets :
        /\ pc = "idle"
        /\ id \notin DOMAIN graph.facts
        /\ graph' = add_fact(graph, [Fact_new(id) EXCEPT !.tags = ts])
        /\ ret' = [op |-> "add_fact"]
        /\ UNCHANGED <<draft, prev, ops, assemblerVars, worldVars>>

\* graph.add_association(entity e1, location l1, 0.8, Direct)
AddAssembleEdge ==
    /\ pc = "idle"
    /\ ops < MaxEdgeOps
    /\ graph' = add_association(graph, TagEntity("e1"), TagLocation("l1"), Rat(4, 5), "Direct")
    /\ ret' = [op |-> "add_association"]
    /\ ops' = ops + 1
    /\ UNCHANGED <<draft, prev, assemblerVars, worldVars>>

\* ContextAssembler::new(cfg).spread_activation(&graph, tags), as one call
SpreadActivation ==
    \E cfg \in {DefaultConfig}, event \in AssembleEvents :
        \E act \in spread_activation(graph, cfg, event.to_tags) :
            /\ config' = cfg
            /\ trigger' = event.to_tags
            /\ activation' = act
            /\ pc' = "done"
            /\ depth' = cfg.max_depth
            /\ ret' = [op |-> "spread_activation"]
            /\ UNCHANGED <<graph, draft, prev, ops, collected, worldVars>>

\* assemble_context that also reveals the facts it returns
AssembleContextRevealing ==
    \E cfg \in CollectConfigs, event \in AssembleEvents :
        LET tags == extract_tags_from_event(event, world) IN
        \E act \in spread_activation(graph, cfg, tags) :
            \E tag_order \in Orders(DOMAIN act),
               score_order \in Orders(ScoredIds(graph, act, cfg)) :
                LET facts == collect_facts(graph, act, cfg, tag_order, score_order) IN
                /\ config' = cfg
                /\ trigger' = tags
                /\ activation' = act
                /\ collected' = facts
                /\ context' =
                    {[event_description |-> describe_event(event.variant, world),
                      relevant_facts |-> facts,
                      world_context |-> extract_world_context(world),
                      character_context |->
                          extract_character_context(world, event.involved_entities),
                      activated_tags |-> hot_tags(act, cfg.energy_threshold, tag_order)]}
                /\ graph' = [graph EXCEPT !.facts =
                                [id \in DOMAIN graph.facts |->
                                    IF \E i \in 1..Len(facts) : facts[i] = id
                                    THEN reveal(graph.facts[id])
                                    ELSE graph.facts[id]]]
                /\ pc' = "done"
                /\ depth' = cfg.max_depth
                /\ ret' = [op |-> "assemble_context", event |-> event]
                /\ UNCHANGED <<world, draft, prev, ops>>

\* ContextAssembler::new(cfg).assemble_context(&event, &graph, &world): the
\* activation is local to the call and both hot_tags calls iterate it in the
\* same order; relevant_facts holds the facts by id
AssembleContextOf(events) ==
    \E cfg \in CollectConfigs, event \in events :
        LET tags == extract_tags_from_event(event, world) IN
        \E act \in spread_activation(graph, cfg, tags) :
            \E tag_order \in Orders(DOMAIN act),
               score_order \in Orders(ScoredIds(graph, act, cfg)) :
                LET facts == collect_facts(graph, act, cfg, tag_order, score_order) IN
                /\ config' = cfg
                /\ trigger' = tags
                /\ activation' = act
                /\ collected' = facts
                /\ context' =
                    {[event_description |-> describe_event(event.variant, world),
                      relevant_facts |-> facts,
                      world_context |-> extract_world_context(world),
                      character_context |->
                          extract_character_context(world, event.involved_entities),
                      activated_tags |-> hot_tags(act, cfg.energy_threshold, tag_order)]}
                /\ pc' = "done"
                /\ depth' = cfg.max_depth
                /\ ret' = [op |-> "assemble_context", event |-> event]
                /\ UNCHANGED <<graph, world, draft, prev, ops>>

AssembleContext == AssembleContextOf(AssembleEvents)

NextAssemble ==
    \/ AddCharacter
    \/ SetEntityLocation
    \/ AddAssembleFact
    \/ AddAssembleEdge
    \/ SpreadActivation
    \/ CollectFacts
    \/ AssembleContext

SpecAssemble == InitGraph /\ [][NextAssemble]_vars

\* C12: spread_activation, collect_facts and assemble_context leave the
\* KnowledgeGraph (facts, tag_to_facts, associations, fact_by_entity) and the
\* WorldState exactly as they were before the call.
C12_ReadOnly ==
    [][ret'.op \in {"spread_activation", "collect_facts", "assemble_context"}
        => (graph' = graph /\ world' = world)]_vars

\* assemble_context has returned a fact and a character entry from a graph
\* with a fact and an association and a world with a character
C12_Witness ==
    /\ ret.op = "assemble_context"
    /\ DOMAIN graph.facts # {}
    /\ DOMAIN graph.associations # {}
    /\ DOMAIN world.characters # {}
    /\ \E c \in context :
        /\ c.relevant_facts # <<>>
        /\ c.character_context # <<>>
        /\ Len(c.activated_tags) = 2

(***************************************************************************)
(* Operations on an ActivationState (SpecActivation)                       *)
(***************************************************************************)
MaxActOps == 3

ActTags == {TagEntity("e1"), TagLocation("l1"), TagA}

ActEnergies == {R0, Rat(1, 2), R1}

DecayFactors == {Rat(1, 2), Rat(3, 2)}

ActThresholds == {Rat(1, 2)}

MergeStates == {(TagA :> Rat(1, 2)) @@ (TagLocation("l1") :> R1)}

\* state.add_energy(tag, e)
AddEnergy ==
    \E tag \in ActTags, e \in ActEnergies :
        /\ ops < MaxActOps
        /\ activation' = add_energy(activation, tag, e)
        /\ ret' = [op |-> "add_energy", arg |-> e, before |-> activation]
        /\ prev' = ret
        /\ ops' = ops + 1
        /\ UNCHANGED <<graph, draft, config, trigger, pc, depth, collected, worldVars>>

\* state.set_energy(tag, e)
SetEnergyTo ==
    \E tag \in ActTags, e \in ActEnergies :
        /\ ops < MaxActOps
        /\ activation' = set_energy(activation, tag, e)
        /\ ret' = [op |-> "set_energy", arg |-> e, before |-> activation]
        /\ prev' = ret
        /\ ops' = ops + 1
        /\ UNCHANGED <<graph, draft, config, trigger, pc, depth, collected, worldVars>>

\* state.apply_decay(factor)
ApplyDecay ==
    \E factor \in DecayFactors :
        /\ ops < MaxActOps
        /\ activation' = apply_decay(activation, factor)
        /\ ret' = [op |-> "apply_decay", arg |-> factor, before |-> activation]
        /\ prev' = ret
        /\ ops' = ops + 1
        /\ UNCHANGED <<graph, draft, config, trigger, pc, depth, collected, worldVars>>

\* state.prune(threshold)
Prune ==
    \E threshold \in ActThresholds :
        /\ ops < MaxActOps
        /\ activation' = prune(activation, threshold)
        /\ ret' = [op |-> "prune", arg |-> threshold, before |-> activation]
        /\ prev' = ret
        /\ ops' = ops + 1
        /\ UNCHANGED <<graph, draft, config, trigger, pc, depth, collected, worldVars>>

\* state.normalize()
Normalize ==
    \E order \in Orders(DOMAIN activation) :
        /\ ops < MaxActOps
        /\ activation' = normalize(activation, order)
        /\ ret' = [op |-> "normalize", arg |-> R0, before |-> activation]
        /\ prev' = ret
        /\ ops' = ops + 1
        /\ UNCHANGED <<graph, draft, config, trigger, pc, depth, collected, worldVars>>

\* state.merge(&other)
Merge ==
    \E other \in MergeStates :
        /\ ops < MaxActOps
        /\ activation' = merge(activation, other)
        /\ ret' = [op |-> "merge", arg |-> R0, before |-> activation]
        /\ prev' = ret
        /\ ops' = ops + 1
        /\ UNCHANGED <<graph, draft, config, trigger, pc, depth, collected, worldVars>>

\* state.hot_tags(threshold); the list returned is kept in collected
HotTags ==
    \E threshold \in ActThresholds, order \in Orders(DOMAIN activation) :
        /\ collected' = hot_tags(activation, threshold, order)
        /\ ret' = [op |-> "hot_tags", arg |-> threshold, before |-> activation]
        /\ prev' = ret
        /\ UNCHANGED <<graph, draft, ops, activation, config, trigger, pc, depth, worldVars>>

NextActivation ==
    \/ AddAssembleEdge
    \/ SpreadActivation
    \/ AddEnergy
    \/ SetEnergyTo
    \/ ApplyDecay
    \/ Prune
    \/ Normalize
    \/ Merge
    \/ HotTags

SpecActivation == InitGraph /\ [][NextActivation]_vars

\* C13: with association weights, initial_energy, decay_rate, the energies
\* given to add_energy / set_energy, the decay factors and the merged states
\* all >= 0, every energy of the ActivationState is >= 0 after
\* spread_activation and after any sequence of add_energy, set_energy,
\* apply_decay, prune, normalize and merge.
C13_EnergiesNonNegative ==
    \A t \in DOMAIN activation : RLe(R0, activation[t])

\* a state returned by spread_activation over an association was decayed and
\* then normalized, and holds a positive energy below 1
C13_Witness ==
    /\ pc = "done"
    /\ DOMAIN graph.associations # {}
    /\ prev.op = "apply_decay"
    /\ ret.op = "normalize"
    /\ \E t \in DOMAIN activation :
        RLt(R0, activation[t]) /\ RLt(activation[t], R1)

\* the largest energy of a non-empty state
C14_Max(S) ==
    CHOOSE e \in {S[t] : t \in DOMAIN S} : \A t \in DOMAIN S : RLe(S[t], e)

\* C14: for a state whose maximum energy is > 0, normalize() divides every
\* energy by the former maximum, so that the maximum becomes 1, and a second
\* normalize() leaves the state unchanged; for an empty state or a maximum
\* of 0, normalize() changes nothing.
C14_NormalizeIdempotent ==
    ret.op = "normalize" =>
        IF DOMAIN ret.before # {} /\ RLt(R0, C14_Max(ret.before))
        THEN /\ DOMAIN activation = DOMAIN ret.before
             /\ \A t \in DOMAIN activation :
                    activation[t] = RDiv(ret.before[t], C14_Max(ret.before))
             /\ C14_Max(activation) = R1
             /\ \A order \in Orders(DOMAIN activation) :
                    normalize(activation, order) = activation
        ELSE activation = ret.before

\* normalize() ran on a state with two different positive energies whose
\* maximum was not 1
C14_Witness ==
    /\ ret.op = "normalize"
    /\ DOMAIN ret.before # {}
    /\ C14_Max(ret.before) # R1
    /\ \E t, u \in DOMAIN ret.before :
        /\ RLt(R0, ret.before[t])
        /\ RLt(ret.before[t], ret.before[u])
        /\ activation[u] = R1
        /\ activation[t] = RDiv(ret.before[t], ret.before[u])

C16_HotTagsDeterministic ==
    ret.op = "hot_tags" =>
        LET n == Len(collected) IN
        /\ {collected[i] : i \in 1..n} =
            {<<t, ret.before[t]>> : t \in {u \in DOMAIN ret.before :
                                            RLe(ret.arg, ret.before[u])}}
        /\ \A i, j \in 1..n : collected[i] = collected[j] => i = j
        /\ \A i, j \in 1..n : i < j => RLe(collected[j][2], collected[i][2])
        /\ \A order \in Orders(DOMAIN ret.before) :
            hot_tags(ret.before, ret.arg, order) = collected

\* C17: after prune(x) the state holds exactly the entries that had energy
\* >= x before the call, with unchanged energies (an entry with energy equal
\* to x is kept); every other entry is gone, so its get_energy is 0 and
\* active_count drops by the number of entries removed.
C17_PruneKeepsAtOrAbove ==
    ret.op = "prune" =>
        LET kept == {t \in DOMAIN ret.before : RLe(ret.arg, ret.before[t])}
            gone == (DOMAIN ret.before) \ kept
        IN  /\ DOMAIN activation = kept
            /\ \A t \in kept : activation[t] = ret.before[t]
            /\ \A t \in gone : get_energy(activation, t) = R0 /\ ~is_active(activation, t)
            /\ active_count(activation) = active_count(ret.before) - Cardinality(gone)

\* prune(x) kept an entry whose energy was exactly x and removed another one
C17_Witness ==
    /\ ret.op = "prune"
    /\ \E t \in DOMAIN activation : activation[t] = ret.arg
    /\ \E t \in DOMAIN ret.before :
        /\ RLt(R0, ret.before[t])
        /\ t \notin DOMAIN activation

(***************************************************************************)
(* Co-occurrence associations over three facts (SpecCoOccur)               *)
(***************************************************************************)
CoFactIds == {"f1", "f2", "f3"}

CoTags == {TagA, TagB, TagC}

CoFactTagSets == {{TagA, TagB}, {TagA, TagC}, {TagA, TagB, TagC}}

\* graph.add_fact(Fact::new(..).with_tags(ts)), fresh id, while the graph has
\* no associations
AddCoOccurringFact ==
    \E id \in CoFactIds, ts \in CoFactTagSets :
        /\ ops = 0
        /\ id \notin DOMAIN graph.facts
        /\ graph' = add_fact(graph, [Fact_new(id) EXCEPT !.tags = ts])
        /\ ret' = [op |-> "add_fact", id |-> id, ok |-> TRUE, val |-> {}]
        /\ UNCHANGED <<draft, prev, ops, assemblerVars, worldVars>>

NextCoOccur == AddCoOccurringFact \/ BuildCoOccurrence

SpecCoOccur == InitGraph /\ [][NextCoOccur]_vars

\* the number of live facts that carry both tags
C18_Shared(a, b) ==
    Cardinality({i \in DOMAIN graph.facts : {a, b} \subseteq graph.facts[i].tags})

\* min(1, ln c): ln 1 = 0, ln 2 = 0.693, ln c > 1 from c = 3 on
C18_Weight(c) == IF c = 1 THEN R0 ELSE IF c = 2 THEN Rat(693, 1000) ELSE R1

\* the positions of the edges a -> b in associations[a]
C18_Edges(a, b) ==
    {i \in 1..Len(get_associations(graph, a)) : get_associations(graph, a)[i].target = b}

\* C18: on a graph with no associations, build_co_occurrence_associations
\* creates, for every pair of distinct tags that appear together on c >= 1
\* facts, exactly one edge in each direction, of kind CoOccurrence and weight
\* min(1, ln c) (weight 0 when c = 1), and no edge between tags that never
\* share a fact; a pair sharing more facts never gets a lower weight than a
\* pair sharing fewer.
C18_CoOccurrenceEdges ==
    (ret.op = "build_co_occurrence_associations" /\ ops = 1) =>
        /\ \A a, b \in CoTags :
            IF a # b /\ C18_Shared(a, b) >= 1
            THEN /\ Cardinality(C18_Edges(a, b)) = 1
                 /\ \A i \in C18_Edges(a, b) :
                    /\ get_associations(graph, a)[i].association_type = "CoOccurrence"
                    /\ get_associations(graph, a)[i].weight = C18_Weight(C18_Shared(a, b))
            ELSE C18_Edges(a, b) = {}
        /\ \A a, b, c, d \in CoTags :
            (/\ a # b /\ c # d
             /\ C18_Shared(c, d) >= 1
             /\ C18_Shared(a, b) >= C18_Shared(c, d))
                => RLe(EdgeWeight(graph, c, d), EdgeWeight(graph, a, b))

\* the first build ran on three facts: A and B share all three, A and C two
C18_Witness ==
    /\ ret.op = "build_co_occurrence_associations" /\ ops = 1
    /\ C18_Shared(TagA, TagB) = 3
    /\ C18_Shared(TagA, TagC) = 2
    /\ EdgeWeight(graph, TagB, TagA) = R1
    /\ EdgeWeight(graph, TagC, TagA) = Rat(693, 1000)

(***************************************************************************)
(* The character context of an assembled context (SpecVitals)              *)
(***************************************************************************)
MaxHp == 3

\* world.add_character(c) with c.stats.current_hp and c.stats.max_hp set
SetStats ==
    \E id \in Entities, current_hp \in 0..MaxHp, max_hp \in 0..MaxHp :
        /\ world' = add_character(world,
                        Character_new(id, CharacterNames[id], current_hp, max_hp))
        /\ ret' = [op |-> "add_character"]
        /\ UNCHANGED <<graph, draft, prev, ops, assemblerVars, context>>

NextVitals == SetStats \/ AssembleContext

SpecVitals == InitGraph /\ [][NextVitals]_vars

\* C20: for every involved character, the hp percentage in the character
\* context equals current_hp / max_hp x 100 rounded to the nearest integer,
\* and equals 100 when max_hp = 0 (current_hp = 2, max_hp = 3 gives 67).
C20_HpPercentRounded ==
    ret.op = "assemble_context" =>
        \A c \in context :
            \A i \in 1..Len(c.character_context) :
                \A e \in DOMAIN world.characters :
                    world.characters[e].name = c.character_context[i].name =>
                        c.character_context[i].current_hp_percent =
                            hp_percent_rounded(world.characters[e].stats)

(***************************************************************************)
(* World time (SpecTime)                                                   *)
(***************************************************************************)
MaxTimeOps == 2

\* state.time = WorldTime::new(day, hour, minute, season), hour < 24, minute < 60
SetTime ==
    \E day \in {0, 1, 89, 179, 269, 359}, hour \in {0, 23}, minute \in {0, 30, 59},
       season \in {"Spring", "Summer", "Autumn", "Winter"} :
        /\ world' = [world EXCEPT !.time = WorldTime_new(day, hour, minute, season)]
        /\ ret' = [op |-> "set_time"]
        /\ UNCHANGED <<graph, draft, prev, ops, assemblerVars, context>>

\* state.advance_time(minutes). When minute + minutes is above u32::MAX the
\* first addition panics in a build with overflow checks, before anything is
\* written, and wraps in a build without them. The arguments are 0, 1, 60 (an
\* hour), 1440 (a day), 129600 (90 days) and u32::MAX.
AdvanceTime ==
    \E minutes \in {U32(0, 0), U32(0, 1), U32(0, 60), U32(0, 1440), U32(1, 64064),
                    U32(65535, 65535)},
       checked \in BOOLEAN :
        LET panics == checked /\ total_minutes(world.time.minute, minutes).overflow IN
        /\ ops < MaxTimeOps
        /\ world' = IF panics THEN world ELSE advance_time(world, minutes)
        /\ ret' = [op |-> "advance_time", arg |-> minutes, before |-> world.time,
                   panicked |-> panics]
        /\ ops' = ops + 1
        /\ UNCHANGED <<graph, draft, prev, assemblerVars, context>>

NextTime == SetTime \/ AdvanceTime

SpecTime == InitGraph /\ [][NextTime]_vars

\* day*1440 + hour*60 + minute + m as <<whole days, minute of the day>>; a
\* number has one such pair, so two times with hour < 24 and minute < 60
\* count the same minutes exactly when their pairs are equal
C21_Expected(time, m) ==
    LET rest == time.hour * 60 + time.minute + U32Mod(m, 1440) IN
    <<time.day + U32Div(m, 1440) + rest \div 1440, rest % 1440>>

\* C21: for a time with hour < 24 and minute < 60 and any m, advance_time(m)
\* returns with hour' < 24, minute' < 60 and day'*1440 + hour'*60 + minute' =
\* day*1440 + hour*60 + minute + m, and the season is the one of day' mod 360
\* (0-89 Spring, 90-179 Summer, 180-269 Autumn, 270-359 Winter).
C21_AdvanceTimeExact ==
    ret.op = "advance_time" =>
        /\ ~ret.panicked
        /\ world.time.hour < 24
        /\ world.time.minute < 60
        /\ <<world.time.day, world.time.hour * 60 + world.time.minute>> =
            C21_Expected(ret.before, ret.arg)
        /\ world.time.season =
            (IF world.time.day % 360 < 90 THEN "Spring"
             ELSE IF world.time.day % 360 < 180 THEN "Summer"
             ELSE IF world.time.day % 360 < 270 THEN "Autumn"
             ELSE "Winter")

(***************************************************************************)
(* The event description of an assembled context (SpecDescribe)            *)
(***************************************************************************)
\* the four variants describe_event has an arm for; what the interface of
\* the event returns does not enter the description
DescribedVariants ==
    {[kind |-> "CombatAbilityUsed", source |-> "e1", target |-> "e2", ability |-> "strike"],
     [kind |-> "CombatAbilityUsed", source |-> "e2", target |-> "e1", ability |-> "strike"],
     [kind |-> "DialogueStarted", participants |-> <<"e1", "e2">>, topic |-> {}],
     [kind |-> "DialogueStarted", participants |-> <<"e1", "e2">>, topic |-> {"the war"}],
     [kind |-> "LocationEntered", entity |-> "e1", location |-> "l1"],
     [kind |-> "LocationEntered", entity |-> "e2", location |-> "l1"],
     [kind |-> "EntityDied", entity |-> "e1", killer |-> {}],
     [kind |-> "EntityDied", entity |-> "e1", killer |-> {"e2"}]}

\* world.add_location(Location { id, name, .. })
AddLocation ==
    \E l \in Locations :
        /\ pc = "idle"
        /\ world' = add_location(world, [id |-> l, name |-> "the dark forest"])
        /\ ret' = [op |-> "add_location"]
        /\ UNCHANGED <<graph, draft, prev, ops, assemblerVars, context>>

\* assemble_context on an event of one of the four described variants
AssembleDescribed ==
    AssembleContextOf({[variant |-> v, to_tags |-> <<>>, primary_entity |-> {},
                        involved_entities |-> <<>>] : v \in DescribedVariants})

NextDescribe == AddCharacter \/ AddLocation \/ AssembleDescribed

SpecDescribe == InitGraph /\ [][NextDescribe]_vars

C22_Placeholders == {"Unknown", "Someone", "an unknown place"}

\* the ways to render an entity: its character's name, or any placeholder
C22_EntityNames(id) ==
    IF id \in DOMAIN world.characters
    THEN {world.characters[id].name}
    ELSE C22_Placeholders

\* the ways to render a location: its name, or any placeholder
C22_LocationNames(l) ==
    IF l \in DOMAIN world.locations THEN {world.locations[l].name} ELSE C22_Placeholders

\* the descriptions of an event in which every referenced entity and location
\* appears, under its name or under a placeholder
C22_Rendered(event) ==
    IF event.kind = "CombatAbilityUsed"
    THEN {s \o " used ability '" \o event.ability \o "' on " \o t :
            s \in C22_EntityNames(event.source), t \in C22_EntityNames(event.target)}
    ELSE IF event.kind = "DialogueStarted"
    THEN {Join(names, " and ") \o
            (IF event.topic # {}
             THEN " begin discussing " \o (CHOOSE t \in event.topic : TRUE)
             ELSE " begin a conversation") :
            names \in {ns \in [1..Len(event.participants) ->
                                UNION {C22_EntityNames(event.participants[i]) :
                                        i \in 1..Len(event.participants)}] :
                        \A i \in 1..Len(event.participants) :
                            ns[i] \in C22_EntityNames(event.participants[i])}}
    ELSE IF event.kind = "LocationEntered"
    THEN {e \o " enters " \o l :
            e \in C22_EntityNames(event.entity), l \in C22_LocationNames(event.location)}
    ELSE IF event.killer # {}
    THEN {e \o " was killed by " \o k :
            e \in C22_EntityNames(event.entity),
            k \in C22_EntityNames(CHOOSE k \in event.killer : TRUE)}
    ELSE {e \o " has died" : e \in C22_EntityNames(event.entity)}

\* C22: in the event description of assemble_context every entity or location
\* of the event that the world does not resolve appears as "Unknown",
\* "Someone" or "an unknown place" (source and target of CombatAbilityUsed,
\* each participant of DialogueStarted, entity and location of
\* LocationEntered, entity and killer of EntityDied); none is left out.
C22_PlaceholdersForUnknown ==
    (ret.op = "assemble_context" /\ ret.event.variant \in DescribedVariants) =>
        \A c \in context : c.event_description \in C22_Rendered(ret.event.variant)

(***************************************************************************)
(* The trigger tags of an assembled context (SpecTrigger)                  *)
(***************************************************************************)
\* events whose tags hold the location of the primary entity already, hold a
\* tag twice, or come without a primary entity
TriggerEvents ==
    {[variant |-> [kind |-> "Other"],
      to_tags |-> <<TagLocation("l1"), TagEntity("e1")>>, primary_entity |-> {"e1"},
      involved_entities |-> <<"e1">>],
     [variant |-> [kind |-> "Other"],
      to_tags |-> <<TagEntity("e1"), TagEntity("e1")>>, primary_entity |-> {"e2"},
      involved_entities |-> <<"e2">>],
     [variant |-> [kind |-> "Other"],
      to_tags |-> <<TagEntity("e1")>>, primary_entity |-> {},
      involved_entities |-> <<>>]}

\* assemble_context on one of these events
AssembleTriggered == AssembleContextOf(TriggerEvents)

NextTrigger ==
    \/ AddCharacter
    \/ SetEntityLocation
    \/ AddAssembleFact
    \/ AddAssembleEdge
    \/ AssembleTriggered

SpecTrigger == InitGraph /\ [][NextTrigger]_vars

\* the location tag extract_tags_from_event is to append for an event: that of
\* the primary entity's entry in entity_locations, if there is one
C28_LocationTag(event) ==
    IF \E e \in event.primary_entity : e \in DOMAIN world.entity_locations
    THEN <<TagLocation(world.entity_locations[CHOOSE e \in event.primary_entity : TRUE])>>
    ELSE <<>>

\* C28: the trigger list of assemble_context is event.to_tags() followed by
\* Tag::Location(loc) exactly when the primary entity has the entry loc in
\* entity_locations, and a tag that occurs n times in it starts with energy
\* n x initial_energy: the energies returned are those of the recurrence that
\* starts from n x initial_energy, and they are n x initial_energy themselves
\* on a graph without associations.
C28_TriggersAccumulate ==
    ret.op = "assemble_context" =>
        /\ trigger = ret.event.to_tags \o C28_LocationTag(ret.event)
        /\ \A i \in 1..Len(trigger) :
            /\ get_energy(activation, trigger[i]) =
                SnapshotEnergy(config.max_depth, trigger[i])
            /\ DOMAIN graph.associations = {} =>
                activation[trigger[i]] =
                    RMul(Rat(Occurrences(trigger, trigger[i]), 1), config.initial_energy)

\* the event's tags held the location of its primary entity already: on a
\* graph without associations the location tag has twice the initial energy
C28_Witness ==
    /\ ret.op = "assemble_context"
    /\ ret.event.primary_entity = {"e1"}
    /\ "e1" \in DOMAIN world.entity_locations
    /\ trigger = <<TagLocation("l1"), TagEntity("e1"), TagLocation("l1")>>
    /\ DOMAIN graph.associations = {}
    /\ activation[TagLocation("l1")] = RMul(Rat(2, 1), config.initial_energy)
    /\ activation[TagEntity("e1")] = config.initial_energy

====
